---- MODULE Spec2Model ----
(***************************************************************************)
(* Model of scripts/keyboard_steer.py: the LKAS11 frame encoder            *)
(* (checksum, build_lkas11), the terminal key reader (read_key) and the    *)
(* 50 Hz control loop (main) that sends one frame per tick over a Panda.   *)
(***************************************************************************)
EXTENDS Integers, Naturals, Sequences, FiniteSets, TLC

VARIABLES
  pc,         \* position of main: "start", "read_key", "select", "send", "advance", "stopped", "failed"
              \* (or "encode"/"encoded" when build_lkas11 is exercised on its own)
  panda,      \* the Panda handle of main: "none" before Panda(), "open" after
  counter,    \* main's counter (the counter argument of build_lkas11)
  torque,     \* main's torque (the torque argument of build_lkas11)
  key,        \* main's key: the value read_key returned in this tick
  steer_req,  \* the steer_req argument of the last build_lkas11 call
  msg,        \* main's msg: the frame build_lkas11 returned
  ttyQueue,   \* characters typed and held by the terminal driver, not yet read
  stdinBuf,   \* characters sys.stdin has fetched from the terminal but not yet returned
  termMode,   \* current terminal attributes
  old,        \* read_key's old: the attributes tcgetattr returned
  wire,       \* arguments of the last panda.can_send call
  nSent,      \* number of panda.can_send calls so far
  tickSends,  \* number of panda.can_send calls in the current tick
  prevTorque, \* torque at the start of the current tick
  prevWire,   \* wire at the start of the current tick: the call of the tick before
  mode0,      \* the terminal attributes when main started
  sendResult, \* how the last panda.can_send call ended: "none", "ok", "raised"
  steered     \* whether main has read an 's' or a 'd' so far

vars == <<pc, panda, counter, torque, key, steer_req, msg, ttyQueue, stdinBuf,
          termMode, old, wire, nSent, tickSends, prevTorque, prevWire, mode0,
          sendResult, steered>>

-----------------------------------------------------------------------------
(* Program constants *)

BUS == 0

STEER_MAX == 1023

STEER_STEP == 300

LKAS11 == 832       \* 0x340

(* Bounds of the model *)

MaxFrames == 17     \* can_send calls in a run: one more than a counter cycle

MaxTyped == 2       \* characters the terminal driver holds at once

TorqueBound == 2000 \* build_lkas11 is exercised on torque in -TorqueBound..TorqueBound

None == "None"

Keys == {"s", "d", "q", "x"}    \* 'x' stands for every key other than s, d, q

InitialModes == {"canon", "raw"}

NoSend == [addr |-> -1, dat |-> <<>>, bus |-> -1]

-----------------------------------------------------------------------------
(* Integer helpers: Python's max, min, abs and the bit operators on        *)
(* non-negative ints.                                                      *)

Max(a, b) == IF a >= b THEN a ELSE b

Min(a, b) == IF a <= b THEN a ELSE b

Abs(a) == IF a >= 0 THEN a ELSE -a

RECURSIVE Pow2(_)
Pow2(n) == IF n = 0 THEN 1 ELSE 2 * Pow2(n - 1)

ShiftL(a, n) == a * Pow2(n)

ShiftR(a, n) == a \div Pow2(n)

RECURSIVE BitAnd(_, _)
BitAnd(a, b) ==
  IF a = 0 \/ b = 0 THEN 0
  ELSE (IF a % 2 = 1 /\ b % 2 = 1 THEN 1 ELSE 0) + 2 * BitAnd(a \div 2, b \div 2)

RECURSIVE BitOr(_, _)
BitOr(a, b) ==
  IF a = 0 THEN b
  ELSE IF b = 0 THEN a
  ELSE (IF a % 2 = 1 \/ b % 2 = 1 THEN 1 ELSE 0) + 2 * BitOr(a \div 2, b \div 2)

RECURSIVE sum(_)
sum(data) == IF data = <<>> THEN 0 ELSE Head(data) + sum(Tail(data))

-----------------------------------------------------------------------------
(* The frame encoder *)

checksum_onescomp(data) == 255 - (sum(data) % 256)

checksum(data) == (256 - (sum(data) % 256)) % 256

clamp_none(t) == t

clamp(t) == Max(-STEER_MAX, Min(STEER_MAX, t))

counter_bits_low(c) == BitAnd(c, 15)

counter_bits(c) == ShiftL(BitAnd(c, 15), 4)

torque_high_sign7(t, sign) == BitOr(BitAnd(ShiftR(t, 8), 7), ShiftL(sign, 7))

torque_high_mask1(t, sign) == BitOr(BitAnd(ShiftR(t, 8), 1), ShiftL(sign, 3))

torque_high(t, sign) == BitOr(BitAnd(ShiftR(t, 8), 7), ShiftL(sign, 3))

build_lkas11(tq, ctr, req) ==
  LET t0   == clamp(tq)
      sign == IF t0 >= 0 THEN 0 ELSE 1
      t    == Abs(t0)
      b0   == counter_bits(ctr)
      d0   == IF req THEN BitOr(b0, 1) ELSE b0
      data == <<d0, 0, torque_high(t, sign), BitAnd(t, 255), 0, 0, 0, 0>>
  IN  [data EXCEPT ![8] = checksum(SubSeq(data, 1, 7))]

(* data[i] of a frame, indexed from 0 as in the source *)
Byte(f, i) == f[i + 1]

-----------------------------------------------------------------------------
(* The control loop: main and the read_key calls it makes *)

map_key_neutral_on_none(k, tq) ==
  IF k = "s" THEN -STEER_STEP
  ELSE IF k = "d" THEN STEER_STEP
  ELSE IF k = "q" THEN tq
  ELSE 0

map_key_swapped(k, tq) ==
  IF k = "s" THEN STEER_STEP
  ELSE IF k = "d" THEN -STEER_STEP
  ELSE IF k = "q" THEN tq
  ELSE IF k # None THEN 0
  ELSE tq

map_key_accumulate(k, tq) ==
  IF k = "s" THEN tq - STEER_STEP
  ELSE IF k = "d" THEN tq + STEER_STEP
  ELSE IF k = "q" THEN tq
  ELSE IF k # None THEN 0
  ELSE tq

(* the if/elif chain of main: the torque after a tick's key *)
map_key(k, tq) ==
  IF k = "s" THEN -STEER_STEP
  ELSE IF k = "d" THEN STEER_STEP
  ELSE IF k = "q" THEN tq
  ELSE IF k # None THEN 0
  ELSE tq

is_quit_never(k) == FALSE

(* the branch of the chain that breaks out of the loop *)
is_quit(k) == k = "q"

steer_req_default(tq) == TRUE

(* the steer_req argument main passes *)
steer_req_of(tq) == tq # 0

can_send_args_bus1(m) == [addr |-> LKAS11, dat |-> m, bus |-> BUS + 1]

(* the arguments of panda.can_send *)
can_send_args(m) == [addr |-> LKAS11, dat |-> m, bus |-> BUS]

next_counter_mod15(c) == (c + 1) % 15

next_counter(c) == (c + 1) % 16

Init ==
  /\ pc = "start"
  /\ panda = "none"
  /\ counter = 0
  /\ torque = 0
  /\ key = None
  /\ steer_req = FALSE
  /\ msg = <<>>
  /\ ttyQueue = <<>>
  /\ stdinBuf = <<>>
  /\ termMode \in InitialModes
  /\ old = termMode
  /\ wire = NoSend
  /\ nSent = 0
  /\ tickSends = 0
  /\ prevTorque = 0
  /\ prevWire = NoSend
  /\ mode0 = termMode
  /\ sendResult = "none"
  /\ steered = FALSE

(* panda = Panda(); counter = 0; torque = 0 *)
OpenPanda ==
  /\ pc = "start"
  /\ panda' = "open"
  /\ counter' = 0
  /\ torque' = 0
  /\ pc' = "read_key"
  /\ UNCHANGED <<key, steer_req, msg, ttyQueue, stdinBuf, termMode, old, wire,
                 nSent, tickSends, prevTorque>>
  /\ UNCHANGED <<prevWire, mode0, sendResult, steered>>

(* Panda() raises: main ends before the loop *)
OpenPandaFail ==
  /\ pc = "start"
  /\ pc' = "failed"
  /\ UNCHANGED <<panda, counter, torque, key, steer_req, msg, ttyQueue, stdinBuf,
                 termMode, old, wire, nSent, tickSends, prevTorque>>
  /\ UNCHANGED <<prevWire, mode0, sendResult, steered>>

(* the operator types a character and the terminal driver queues it:      *)
(* while select waits, or outside read_key (during the send and the sleep  *)
(* of the tick before), seen here as just before read_key is entered       *)
KeyPress(k) ==
  /\ pc \in {"read_key", "select"}
  /\ Len(ttyQueue) < MaxTyped
  /\ ttyQueue' = Append(ttyQueue, k)
  /\ UNCHANGED <<pc, panda, counter, torque, key, steer_req, msg, stdinBuf,
                 termMode, old, wire, nSent, tickSends, prevTorque>>
  /\ UNCHANGED <<prevWire, mode0, sendResult, steered>>

(* read_key up to select: tcgetattr, then tty.setcbreak, which sets the    *)
(* mode with TCSAFLUSH and so discards the input the driver holds          *)
ReadKeyEnter ==
  /\ pc = "read_key"
  /\ nSent < MaxFrames
  /\ old' = termMode
  /\ termMode' = "cbreak"
  /\ ttyQueue' = <<>>
  /\ prevTorque' = torque
  /\ prevWire' = wire
  /\ tickSends' = 0
  /\ pc' = "select"
  /\ UNCHANGED <<panda, counter, torque, key, steer_req, msg, stdinBuf, wire, nSent>>
  /\ UNCHANGED <<mode0, sendResult, steered>>

(* tcgetattr or tty.setcbreak raises (stdin is no terminal, an I/O error): *)
(* the mode is as it was and the exception leaves main                     *)
ReadKeyEnterFail ==
  /\ pc = "read_key"
  /\ prevTorque' = torque
  /\ prevWire' = wire
  /\ tickSends' = 0
  /\ pc' = "failed"
  /\ UNCHANGED <<panda, counter, torque, key, steer_req, msg, ttyQueue, stdinBuf,
                 termMode, old, wire, nSent, mode0, sendResult, steered>>

(* select reports stdin readable; sys.stdin.read(1) returns one character  *)
(* (from its own buffer when it holds one, else it fetches all the driver  *)
(* holds and keeps the rest); finally restores the mode; main maps the key *)
SelectReady ==
  /\ pc = "select"
  /\ ttyQueue # <<>>
  /\ LET ch == IF stdinBuf # <<>> THEN Head(stdinBuf) ELSE Head(ttyQueue)
     IN  /\ key' = ch
         /\ torque' = map_key(ch, torque)
         /\ pc' = IF is_quit(ch) THEN "stopped" ELSE "send"
         /\ steered' = (steered \/ ch \in {"s", "d"})
  /\ IF stdinBuf # <<>>
       THEN stdinBuf' = Tail(stdinBuf) /\ ttyQueue' = ttyQueue
       ELSE stdinBuf' = Tail(ttyQueue) /\ ttyQueue' = <<>>
  /\ termMode' = old
  /\ UNCHANGED <<panda, counter, steer_req, msg, old, wire, nSent, tickSends, prevTorque>>
  /\ UNCHANGED <<prevWire, mode0, sendResult>>

(* select times out: read_key returns None; main keeps its torque *)
SelectTimeout ==
  /\ pc = "select"
  /\ ttyQueue = <<>>
  /\ key' = None
  /\ torque' = map_key(None, torque)
  /\ pc' = IF is_quit(None) THEN "stopped" ELSE "send"
  /\ termMode' = old
  /\ UNCHANGED <<panda, counter, steer_req, msg, ttyQueue, stdinBuf, old, wire,
                 nSent, tickSends, prevTorque>>
  /\ UNCHANGED <<prevWire, mode0, sendResult, steered>>

SelectFail_norestore ==
  /\ pc = "select"
  /\ pc' = "failed"
  /\ UNCHANGED <<panda, counter, torque, key, steer_req, msg, ttyQueue, stdinBuf,
                 termMode, old, wire, nSent, tickSends, prevTorque, prevWire,
                 mode0, sendResult, steered>>

(* select or read raises (an interrupt, an I/O error): finally restores    *)
(* the mode and the exception leaves main                                   *)
SelectFail ==
  /\ pc = "select"
  /\ termMode' = old
  /\ pc' = "failed"
  /\ UNCHANGED <<panda, counter, torque, key, steer_req, msg, ttyQueue, stdinBuf,
                 old, wire, nSent, tickSends, prevTorque>>
  /\ UNCHANGED <<prevWire, mode0, sendResult, steered>>

(* msg = build_lkas11(...); panda.can_send(0x340, msg, BUS) returns *)
Send ==
  /\ pc = "send"
  /\ steer_req' = steer_req_of(torque)
  /\ msg' = build_lkas11(torque, counter, steer_req_of(torque))
  /\ wire' = can_send_args(msg')
  /\ nSent' = nSent + 1
  /\ tickSends' = tickSends + 1
  /\ sendResult' = "ok"
  /\ pc' = "advance"
  /\ UNCHANGED <<panda, counter, torque, key, ttyQueue, stdinBuf, termMode, old,
                 prevTorque>>
  /\ UNCHANGED <<prevWire, mode0, steered>>

SendFail_continue ==
  /\ pc = "send"
  /\ steer_req' = steer_req_of(torque)
  /\ msg' = build_lkas11(torque, counter, steer_req_of(torque))
  /\ wire' = can_send_args(msg')
  /\ nSent' = nSent + 1
  /\ tickSends' = tickSends + 1
  /\ sendResult' = "raised"
  /\ pc' = "advance"
  /\ UNCHANGED <<panda, counter, torque, key, ttyQueue, stdinBuf, termMode, old,
                 prevTorque, prevWire, mode0, steered>>

(* the same call, but panda.can_send raises: the exception leaves main *)
SendFail ==
  /\ pc = "send"
  /\ steer_req' = steer_req_of(torque)
  /\ msg' = build_lkas11(torque, counter, steer_req_of(torque))
  /\ wire' = can_send_args(msg')
  /\ nSent' = nSent + 1
  /\ tickSends' = tickSends + 1
  /\ sendResult' = "raised"
  /\ pc' = "failed"
  /\ UNCHANGED <<panda, counter, torque, key, ttyQueue, stdinBuf, termMode, old,
                 prevTorque>>
  /\ UNCHANGED <<prevWire, mode0, steered>>

(* counter = (counter + 1) % 16; time.sleep(PERIOD_S) *)
Advance ==
  /\ pc = "advance"
  /\ counter' = next_counter(counter)
  /\ pc' = "read_key"
  /\ UNCHANGED <<panda, torque, key, steer_req, msg, ttyQueue, stdinBuf, termMode,
                 old, wire, nSent, tickSends, prevTorque>>
  /\ UNCHANGED <<prevWire, mode0, sendResult, steered>>

Next ==
  \/ OpenPanda
  \/ OpenPandaFail
  \/ \E k \in Keys : KeyPress(k)
  \/ ReadKeyEnter
  \/ ReadKeyEnterFail
  \/ SelectReady
  \/ SelectTimeout
  \/ SelectFail
  \/ Send
  \/ SendFail
  \/ Advance

Spec == Init /\ [][Next]_vars

-----------------------------------------------------------------------------
(* build_lkas11 on its own: every argument triple, then one call *)

EncInit ==
  /\ pc = "encode"
  /\ panda = "none"
  /\ counter \in 0..15
  /\ torque \in (-TorqueBound)..TorqueBound
  /\ steer_req \in BOOLEAN
  /\ key = None
  /\ msg = <<>>
  /\ ttyQueue = <<>>
  /\ stdinBuf = <<>>
  /\ termMode = "canon"
  /\ old = termMode
  /\ wire = NoSend
  /\ nSent = 0
  /\ tickSends = 0
  /\ prevTorque = 0
  /\ prevWire = NoSend
  /\ mode0 = termMode
  /\ sendResult = "none"
  /\ steered = FALSE

Encode ==
  /\ pc = "encode"
  /\ msg' = build_lkas11(torque, counter, steer_req)
  /\ pc' = "encoded"
  /\ UNCHANGED <<panda, counter, torque, key, steer_req, ttyQueue, stdinBuf,
                 termMode, old, wire, nSent, tickSends, prevTorque>>
  /\ UNCHANGED <<prevWire, mode0, sendResult, steered>>

EncNext == Encode

EncSpec == EncInit /\ [][EncNext]_vars

(* the loop and the encoder on its own, side by side *)
AllSpec == (Init \/ EncInit) /\ [][Next \/ EncNext]_vars

-----------------------------------------------------------------------------
(* Reading a frame back, in plain arithmetic *)

FrameCounter(f) == Byte(f, 0) \div 16

FrameRequest(f) == Byte(f, 0) % 2

FrameSign(f) == (Byte(f, 2) \div 8) % 2

FrameMagnitude(f) == (Byte(f, 2) % 8) * 256 + Byte(f, 3)

FrameTorque(f) == IF FrameSign(f) = 1 THEN -FrameMagnitude(f) ELSE FrameMagnitude(f)

IsFrame(f) == Len(f) = 8 /\ \A i \in 0..7 : Byte(f, i) \in 0..255

(* a tick's can_send call has been made (it returned, or it raised) *)
SentThisTick == pc \in {"advance", "failed"} /\ tickSends = 1

-----------------------------------------------------------------------------
(* C1: for every torque (also outside [-1023, 1023]), counter in 0..15 and *)
(* request flag, the frame build_lkas11 returns has byte 7 equal to        *)
(* (0x100 - (sum of bytes 0..6) mod 0x100) mod 0x100 and its 8 bytes sum   *)
(* to 0 mod 256; so does every frame the loop hands to can_send.           *)
C1_ChecksumZero ==
  /\ pc = "encoded" =>
       /\ IsFrame(msg)
       /\ Byte(msg, 7) = (256 - ((Byte(msg, 0) + Byte(msg, 1) + Byte(msg, 2) + Byte(msg, 3)
                                  + Byte(msg, 4) + Byte(msg, 5) + Byte(msg, 6)) % 256)) % 256
       /\ sum(msg) % 256 = 0
  /\ wire # NoSend => IsFrame(wire.dat) /\ sum(wire.dat) % 256 = 0

C1_Witness ==
  /\ pc = "encoded"
  /\ torque < -STEER_MAX
  /\ counter = 15
  /\ steer_req
  /\ Byte(msg, 7) = 5
  /\ sum(msg) = 512

(* C2: the n-th frame handed to can_send (n = 0, 1, ...) carries n mod 16  *)
(* in the high nibble of byte 0; the counter starts at 0, stays in 0..15   *)
(* and advances by one, wrapping 15 -> 0, per frame, whatever the keys.    *)
C2_RollingCounter ==
  /\ counter \in 0..15
  /\ nSent = 0 => counter = 0
  /\ wire # NoSend => FrameCounter(wire.dat) = (nSent - 1) % 16
  /\ pc \in {"read_key", "select", "send", "stopped"} => counter = nSent % 16
  /\ pc = "advance" => counter = (nSent - 1) % 16

C2_Witness ==
  /\ nSent = 17
  /\ pc = "advance"
  /\ FrameCounter(wire.dat) = 0
  /\ counter = 0
  /\ torque # 0

(* C3: a tick that reads 'q' ends in "stopped" with no can_send call in    *)
(* that tick, and from "stopped" nothing is ever sent again.               *)
C3_QuitStops ==
  /\ [](pc = "stopped" => key = "q" /\ tickSends = 0)
  /\ [][/\ (pc = "select" /\ pc' \notin {"select", "failed"} /\ key' = "q")
             => (pc' = "stopped" /\ nSent' = nSent /\ wire' = wire)
        /\ pc = "stopped" => (pc' = "stopped" /\ nSent' = nSent /\ wire' = wire)]_vars

C3_Witness ==
  /\ pc = "stopped"
  /\ key = "q"
  /\ nSent = 2
  /\ torque # 0
  /\ tickSends = 0

(* C4: in every frame the loop produces, the request bit (bit 0 of byte 0) *)
(* is 1 exactly when the encoded torque magnitude is non-zero, and the     *)
(* request flag passed to the encoder is false exactly when the torque     *)
(* clamps to 0.                                                            *)
C4_RequestFollowsTorque ==
  /\ wire # NoSend => (FrameRequest(wire.dat) = 1 <=> FrameMagnitude(wire.dat) # 0)
  /\ SentThisTick =>
       /\ steer_req <=> (torque > 0 \/ torque < 0)
       /\ FrameRequest(wire.dat) = IF steer_req THEN 1 ELSE 0

C4_Witness ==
  /\ pc = "advance"
  /\ prevTorque # 0
  /\ torque = 0
  /\ ~steer_req
  /\ FrameRequest(wire.dat) = 0
  /\ FrameMagnitude(wire.dat) = 0

(* C5: for every torque in [-2000, 2000] build_lkas11 returns a frame      *)
(* whose 10-bit magnitude is min(|torque|, 1023), and whose sign bit is 1  *)
(* exactly when the torque is negative.                                    *)
C5_ClampedMagnitude ==
  pc = "encoded" =>
    /\ IsFrame(msg)
    /\ FrameMagnitude(msg) = (IF Abs(torque) > 1023 THEN 1023 ELSE Abs(torque))
    /\ FrameMagnitude(msg) <= 1023
    /\ torque < 0 => FrameSign(msg) = 1
    /\ torque >= 0 => FrameSign(msg) = 0

C5_Witness ==
  /\ pc = "encoded"
  /\ torque = -2000
  /\ FrameMagnitude(msg) = 1023
  /\ FrameSign(msg) = 1

(* C6: for every counter in 0..15 the high nibble of byte 0 is the counter *)
(* and bits 1-3 of byte 0 are 0, whatever the torque and the request flag. *)
C6_CounterNibble ==
  pc = "encoded" =>
    /\ Byte(msg, 0) \div 16 = counter
    /\ (Byte(msg, 0) \div 2) % 8 = 0

C6_Witness ==
  /\ pc = "encoded"
  /\ counter = 15
  /\ steer_req
  /\ torque < 0
  /\ Byte(msg, 0) = 241

(* C7: build_lkas11 always returns exactly 8 bytes: bytes 1, 4, 5, 6 are   *)
(* 0, byte 2 = (magnitude >> 8) + 8 * sign with the higher bits 0, byte 3  *)
(* = magnitude mod 256; (0, 0, off) gives eight 0x00 bytes and (-300, 5,   *)
(* on) gives 0x51, 0, 0x09, 0x2C, 0, 0, 0, 0x7A.                           *)
C7_Layout ==
  pc = "encoded" =>
    LET mag  == IF Abs(torque) > 1023 THEN 1023 ELSE Abs(torque)
        sign == IF torque < 0 THEN 1 ELSE 0
    IN  /\ IsFrame(msg)
        /\ Byte(msg, 1) = 0 /\ Byte(msg, 4) = 0 /\ Byte(msg, 5) = 0 /\ Byte(msg, 6) = 0
        /\ Byte(msg, 2) = (mag \div 256) + 8 * sign
        /\ Byte(msg, 2) < 16
        /\ Byte(msg, 3) = mag % 256
        /\ (torque = 0 /\ counter = 0 /\ ~steer_req) => msg = <<0, 0, 0, 0, 0, 0, 0, 0>>
        /\ (torque = -300 /\ counter = 5 /\ steer_req) => msg = <<81, 0, 9, 44, 0, 0, 0, 122>>

C7_Witness ==
  /\ pc = "encoded"
  /\ torque = -300
  /\ counter = 5
  /\ steer_req
  /\ msg = <<81, 0, 9, 44, 0, 0, 0, 122>>

(* C8: in a tick that reads a key, the frame of that tick carries          *)
(* -STEER_STEP for 's', +STEER_STEP for 'd' and 0 for any other key that   *)
(* is not 'q', whatever the torque of the tick before.                     *)
C8_KeyDecidesTorque ==
  /\ (pc = "send" /\ key # None) =>
       torque = (IF key = "s" THEN -300 ELSE IF key = "d" THEN 300 ELSE 0)
  /\ (SentThisTick /\ key # None) =>
       /\ key # "q"
       /\ FrameTorque(wire.dat) = (IF key = "s" THEN -300 ELSE IF key = "d" THEN 300 ELSE 0)

C8_Witness ==
  /\ pc = "advance"
  /\ key = "x"
  /\ prevTorque = 300
  /\ FrameTorque(wire.dat) = 0
  /\ FrameRequest(wire.dat) = 0

(* C9 as stated: a tick in which read_key times out sends a frame with     *)
(* torque 0, even if the tick before had a non-zero torque.                *)
C9_TimeoutNeutral ==
  (SentThisTick /\ key = None) => FrameTorque(wire.dat) = 0

(* C9, amended: a tick in which read_key times out keeps the torque of the *)
(* tick before, so its frame carries that torque (0 only if it was 0).     *)
C9_TimeoutKeepsTorque ==
  (SentThisTick /\ key = None) =>
    /\ torque = prevTorque
    /\ FrameTorque(wire.dat) = prevTorque

C9_Witness ==
  /\ pc = "advance"
  /\ key = None
  /\ prevTorque = -300
  /\ FrameTorque(wire.dat) = -300
  /\ FrameRequest(wire.dat) = 1

(* C10: every tick in which read_key returns something other than 'q'      *)
(* calls can_send exactly once, with identifier 0x340 and bus 0, and the   *)
(* counter advances only after that call.                                  *)
C10_OneSendPerTick ==
  /\ [](/\ tickSends \in {0, 1}
        /\ wire # NoSend => (wire.addr = 832 /\ wire.bus = 0 /\ wire.dat = msg)
        /\ pc = "send" => tickSends = 0
        /\ pc = "advance" => tickSends = 1
        /\ (pc = "read_key" /\ nSent > 0) => tickSends = 1)
  /\ [][/\ counter' # counter => (pc = "advance" /\ tickSends = 1)
        /\ (pc = "select" /\ pc' \notin {"select", "failed", "stopped"}) => pc' = "send"
        /\ pc = "send" => (nSent' = nSent + 1 /\ tickSends' = 1)
        /\ pc # "send" => (nSent' = nSent /\ wire' = wire)]_vars

C10_Witness ==
  /\ pc = "read_key"
  /\ key = None
  /\ nSent = 3
  /\ counter = 3
  /\ tickSends = 1
  /\ wire.addr = 832
  /\ wire.bus = 0

(* C11: outside a read_key call in progress, and so in every terminated    *)
(* state (after 'q', after a failed key read, after a failed send), the    *)
(* terminal mode is the mode the terminal had when main started.           *)
C11_ModeRestored ==
  /\ pc # "select" => termMode = mode0
  /\ pc = "select" => (termMode = "cbreak" /\ old = mode0)

C11_Witness ==
  /\ pc = "failed"
  /\ sendResult = "ok"
  /\ tickSends = 0
  /\ nSent = 2
  /\ mode0 = "raw"
  /\ termMode = "raw"

(* C12: when can_send raises, main ends there: the frame is not sent       *)
(* again, the counter is not advanced for it, and nothing is sent later.   *)
C12_SendFailureFatal ==
  /\ [](sendResult = "raised" =>
          /\ pc = "failed"
          /\ tickSends = 1
          /\ counter = FrameCounter(wire.dat)
          /\ counter = (nSent - 1) % 16)
  /\ [][sendResult = "raised" =>
          (pc' = "failed" /\ nSent' = nSent /\ wire' = wire /\ counter' = counter)]_vars

C12_Witness ==
  /\ sendResult = "raised"
  /\ pc = "failed"
  /\ nSent = 3
  /\ counter = 2
  /\ torque # 0

(* C13: the Panda handle is opened once at startup and is closed on every  *)
(* way out of the loop: in no terminated state is it still open.           *)
C13_HandleReleased ==
  /\ pc \in {"stopped", "failed"} => panda # "open"
  /\ pc \in {"read_key", "select", "send", "advance"} => panda = "open"

(* a character is waiting: held by the terminal driver or by sys.stdin *)
Pending(k) ==
  \/ \E i \in 1..Len(ttyQueue) : ttyQueue[i] = k
  \/ \E i \in 1..Len(stdinBuf) : stdinBuf[i] = k

(* C14, as a property of single steps: while every key read returns and    *)
(* every send succeeds, a 'q' that was pressed and not yet acted on stays  *)
(* waiting until the loop reads it and stops; it is never discarded (a     *)
(* discarded 'q' with no later key gives a run that never stops).          *)
C14_QuitNeverDropped ==
  [][(Pending("q") /\ pc' # "failed") => (Pending("q")' \/ (key' = "q" /\ pc' = "stopped"))]_vars

(* C15: a tick that reads a key acts on the first key typed during its own *)
(* poll window; no key typed in an earlier tick is held over and consumed  *)
(* by a later tick.                                                        *)
C15_KeyFromThisWindow ==
  [][(pc = "select" /\ pc' \in {"send", "stopped"} /\ key' # None) =>
       (stdinBuf = <<>> /\ key' = Head(ttyQueue))]_vars

(* C16: a tick in which read_key times out sends a frame with the torque,  *)
(* the sign and the request flag of the frame of the tick before: the two  *)
(* frames differ in the counter nibble and the checksum and nowhere else.  *)
C16_TimeoutRepeatsFrame ==
  (SentThisTick /\ key = None /\ prevWire # NoSend) =>
    /\ \A i \in 1..6 : Byte(wire.dat, i) = Byte(prevWire.dat, i)
    /\ Byte(wire.dat, 0) % 16 = Byte(prevWire.dat, 0) % 16
    /\ FrameCounter(wire.dat) = (FrameCounter(prevWire.dat) + 1) % 16
    /\ Byte(wire.dat, 7) # Byte(prevWire.dat, 7)

C16_Witness ==
  /\ pc = "advance"
  /\ key = None
  /\ nSent = 17
  /\ FrameTorque(prevWire.dat) = 300
  /\ FrameTorque(wire.dat) = 300
  /\ FrameCounter(prevWire.dat) = 15
  /\ FrameCounter(wire.dat) = 0

(* C17: until the loop has read its first 's' or 'd', every frame it sends *)
(* has magnitude 0, sign bit 0 and the request bit off, whatever other     *)
(* keys and timeouts there were.                                           *)
C17_IdleIsNeutral ==
  /\ ~steered => torque = 0
  /\ (~steered /\ wire # NoSend) =>
       /\ FrameMagnitude(wire.dat) = 0
       /\ FrameSign(wire.dat) = 0
       /\ FrameRequest(wire.dat) = 0

C17_Witness ==
  /\ ~steered
  /\ pc = "advance"
  /\ nSent = 3
  /\ key = "x"
  /\ FrameMagnitude(wire.dat) = 0
  /\ FrameRequest(wire.dat) = 0

(* C18: the loop's torque is always -300, 0 or 300, so within              *)
(* [-STEER_MAX, STEER_MAX]; the encoder's clamp leaves it as it is and     *)
(* every frame sent carries magnitude 0 or 300.                            *)
C18_TorqueValues ==
  /\ pc \notin {"encode", "encoded"} =>
       /\ torque \in {-300, 0, 300}
       /\ -1023 <= torque /\ torque <= 1023
       /\ clamp(torque) = torque
  /\ wire # NoSend => FrameMagnitude(wire.dat) \in {0, 300}

C18_Witness ==
  /\ pc = "advance"
  /\ prevTorque = 300
  /\ torque = -300
  /\ clamp(torque) = -300
  /\ FrameMagnitude(wire.dat) = 300
  /\ FrameSign(wire.dat) = 1

(* C19: for torque in [-1023, 1023], counter in 0..15 and either flag,     *)
(* reading the frame back (counter = byte0 >> 4, request = byte0 & 1,      *)
(* magnitude from bytes 2 and 3, negated when the sign bit is set) gives   *)
(* the arguments again; the sign bit is never set with magnitude 0.        *)
C19_Lossless ==
  (pc = "encoded" /\ -1023 <= torque /\ torque <= 1023) =>
    /\ FrameCounter(msg) = counter
    /\ FrameRequest(msg) = (IF steer_req THEN 1 ELSE 0)
    /\ FrameTorque(msg) = torque
    /\ FrameSign(msg) = 1 => FrameMagnitude(msg) # 0

C19_Witness ==
  /\ pc = "encoded"
  /\ torque = -1023
  /\ counter = 15
  /\ ~steer_req
  /\ FrameTorque(msg) = -1023
  /\ FrameRequest(msg) = 0

====
